---- MODULE Spec2Model ----
(***************************************************************************)
(* Model of nfstest.host.Host (src/nfstest/host.py): the command executor  *)
(* run_cmd, the background-process registry (process_list, process_smap,   *)
(* process_dmap) with wait_cmd/stop_cmd and the descendant resolver        *)
(* get_pids, the observation session (trace_start/trace_stop and its       *)
(* stages) and cleanup.                                                    *)
(*                                                                         *)
(* The controller is single threaded, so a method is one atomic step.  A   *)
(* method is an operator from a state record (the object's attributes, the *)
(* operating-system state it touches and the result of the call) and the   *)
(* outcomes the environment chooses (exit codes, signal dispositions) to   *)
(* the state record after the call.  Every intermediate state is the      *)
(* parameter of a helper operator (kill_query, wait_reap, ...), so that it *)
(* is evaluated once.                                                      *)
(*                                                                         *)
(* Specifications: Spec (the registry), SpecExec (exit-code classification *)
(* of run_cmd), SpecKill (the signal escalation of stop_cmd), SpecTrace    *)
(* (trace_start/trace_stop), SpecPoints (trace points called directly),    *)
(* SpecCleanup (cleanup and the destructor), SpecBulk (wait_cmd and        *)
(* stop_cmd for the whole registry), SpecPids (get_pids on arbitrary       *)
(* process tables), SpecReady (the readiness check of trace_start),        *)
(* SpecHandles (the session methods with wait_cmd and stop_cmd) and        *)
(* SpecUmount (mount and the retries of umount).                           *)
(***************************************************************************)
EXTENDS Integers, Sequences, FiniteSets, TLC

\* ------------------------------------------------------------- bounds
MaxHandles  == 2    \* Popen objects created by non-blocking run_cmd calls
MaxDepth    == 2    \* descendants below a launched shell: A -> B -> C
MaxSessions == 2    \* trace_start calls
MaxLog      == 1    \* bytes appended to the system log
MaxRemove   == 2    \* artifacts registered in remove_list
MaxCalls    == 2    \* cleanup calls counted
MaxPids     == 3    \* processes in a process table given to get_pids

\* --------------------------------------------------- program constants
None    == 0                                  \* self.process = None
Retries == 5                                  \* while count < 5
Signals == <<"SIGINT", "SIGTERM", "SIGKILL">> \* escalation order
Signum  == <<2, 15, 9>>                       \* Popen returncode is -signum
SshFail == 255                                \* exit status of a failed ssh

VARIABLES
    \* constructor arguments and the caller's identity
    _localhost, isroot, notrace, nfsdebug, rpcdebug, tracepoints, nfsstats,
    nomount, nocleanup,
    \* attributes of the Host object
    _hcleanup_done, mounted, need_network_reset, remove_list,
    process, pstdout, pstderr, perror, returncode,
    process_list, process_smap, process_dmap,
    traceproc, trcpointproc, traceidx, tracefile,
    _nfsdebug, dbgoffset, dbgfile, dbgidx, _tracestate, nfsstattemp,
    \* operating system: Popen objects, process table, files
    procs, ptab, messages, files, tempfiles, ntemp, artifacts,
    \* the last call: its name, what it did, how it ended
    op, ev, raised, exc, ret, blocked,
    \* history
    marks, ncleanup

vars == <<_localhost, isroot, notrace, nfsdebug, rpcdebug, tracepoints, nfsstats,
          nomount, nocleanup,
          _hcleanup_done, mounted, need_network_reset, remove_list,
          process, pstdout, pstderr, perror, returncode,
          process_list, process_smap, process_dmap,
          traceproc, trcpointproc, traceidx, tracefile,
          _nfsdebug, dbgoffset, dbgfile, dbgidx, _tracestate, nfsstattemp,
          procs, ptab, messages, files, tempfiles, ntemp, artifacts,
          op, ev, raised, exc, ret, blocked, marks, ncleanup>>

\* The state as one record, so that methods compose as operators.
St ==
    [_localhost |-> _localhost, isroot |-> isroot, notrace |-> notrace,
     nfsdebug |-> nfsdebug, rpcdebug |-> rpcdebug, tracepoints |-> tracepoints,
     nfsstats |-> nfsstats, nomount |-> nomount, nocleanup |-> nocleanup,
     _hcleanup_done |-> _hcleanup_done, mounted |-> mounted,
     need_network_reset |-> need_network_reset, remove_list |-> remove_list,
     process |-> process, pstdout |-> pstdout, pstderr |-> pstderr,
     perror |-> perror, returncode |-> returncode,
     process_list |-> process_list, process_smap |-> process_smap,
     process_dmap |-> process_dmap,
     traceproc |-> traceproc, trcpointproc |-> trcpointproc,
     traceidx |-> traceidx, tracefile |-> tracefile,
     _nfsdebug |-> _nfsdebug, dbgoffset |-> dbgoffset, dbgfile |-> dbgfile,
     dbgidx |-> dbgidx, _tracestate |-> _tracestate, nfsstattemp |-> nfsstattemp,
     procs |-> procs, ptab |-> ptab, messages |-> messages, files |-> files,
     tempfiles |-> tempfiles, ntemp |-> ntemp, artifacts |-> artifacts,
     op |-> op, ev |-> ev, raised |-> raised, exc |-> exc, ret |-> ret,
     blocked |-> blocked, marks |-> marks, ncleanup |-> ncleanup]

Apply(t) ==
    /\ _localhost' = t._localhost /\ isroot' = t.isroot /\ notrace' = t.notrace
    /\ nfsdebug' = t.nfsdebug /\ rpcdebug' = t.rpcdebug
    /\ tracepoints' = t.tracepoints /\ nfsstats' = t.nfsstats
    /\ nomount' = t.nomount /\ nocleanup' = t.nocleanup
    /\ _hcleanup_done' = t._hcleanup_done /\ mounted' = t.mounted
    /\ need_network_reset' = t.need_network_reset /\ remove_list' = t.remove_list
    /\ process' = t.process /\ pstdout' = t.pstdout /\ pstderr' = t.pstderr
    /\ perror' = t.perror /\ returncode' = t.returncode
    /\ process_list' = t.process_list /\ process_smap' = t.process_smap
    /\ process_dmap' = t.process_dmap
    /\ traceproc' = t.traceproc /\ trcpointproc' = t.trcpointproc
    /\ traceidx' = t.traceidx /\ tracefile' = t.tracefile
    /\ _nfsdebug' = t._nfsdebug /\ dbgoffset' = t.dbgoffset /\ dbgfile' = t.dbgfile
    /\ dbgidx' = t.dbgidx /\ _tracestate' = t._tracestate
    /\ nfsstattemp' = t.nfsstattemp
    /\ procs' = t.procs /\ ptab' = t.ptab /\ messages' = t.messages
    /\ files' = t.files /\ tempfiles' = t.tempfiles /\ ntemp' = t.ntemp
    /\ artifacts' = t.artifacts
    /\ op' = t.op /\ ev' = t.ev /\ raised' = t.raised /\ exc' = t.exc
    /\ ret' = t.ret /\ blocked' = t.blocked
    /\ marks' = t.marks /\ ncleanup' = t.ncleanup

\* ------------------------------------------------------------ helpers
Range(q) == {q[i] : i \in DOMAIN q}

Reverse(q) == <<>> \o [i \in 1..Len(q) |-> q[Len(q) + 1 - i]]

RECURSIVE SetToSeq(_)
SetToSeq(S) ==
    IF S = {} THEN <<>>
    ELSE LET m == CHOOSE x \in S : \A y \in S : x <= y
         IN <<m>> \o SetToSeq(S \ {m})

\* A faulty list.remove: the entry is never removed (C3 must fail with it).
RemoveNothing(q, x) == q

\* list.remove(x): drops the first occurrence
Remove(q, x) ==
    LET i == CHOOSE j \in 1..Len(q) : q[j] = x /\ \A k \in 1..(j-1) : q[k] # x
    IN SubSeq(q, 1, i - 1) \o SubSeq(q, i + 1, Len(q))

\* dict[k] = v
Put(m, k, v) == [x \in DOMAIN m \cup {k} |-> IF x = k THEN v ELSE m[x]]

Log(s, name, a, b) == [s EXCEPT !.ev = Append(@, <<name, a, b>>)]

\* A caller starting the call `name`: the previous call's result is gone.
Call(name) ==
    [St EXCEPT !.op = name, !.ev = <<>>, !.raised = FALSE, !.exc = "",
               !.ret = <<>>, !.blocked = FALSE]

\* --------------------------------------------------- operating system
\* Process ids not in use: in the process table, or kept by a Popen object
\* that has not been reaped.
PidSpace == 2..(1 + (MaxHandles + 2 * MaxSessions + 1) * (MaxDepth + 2))
FreePids(s) ==
    PidSpace \ (DOMAIN s.ptab \cup
                {s.procs[h].pid : h \in {x \in DOMAIN s.procs : s.procs[x].state # "reaped"}})

\* Process pid exits with status code: its children are re-parented, and the
\* Popen object it belongs to (if any) has an exit status to collect.
Die(s, pid, code) ==
    [s EXCEPT
       !.ptab = [p \in DOMAIN @ \ {pid} |-> IF @[p] = pid THEN 0 ELSE @[p]],
       !.procs = <<>> \o [h \in DOMAIN @ |->
                            IF @[h].pid = pid /\ @[h].state = "running"
                            THEN [@[h] EXCEPT !.state = "exited", !.rc = code]
                            ELSE @[h]]]

\* The processes of pidlist exit, in that order.
RECURSIVE DieAll(_, _, _)
DieAll(s, pidlist, code) ==
    IF pidlist = <<>> THEN s
    ELSE DieAll(Die(s, Head(pidlist), code), Tail(pidlist), code)

\* The shell of a launched command and the chain of depth descendants below it.
SpawnPids(s, cmd, depth, free) ==
    [s EXCEPT !.ptab = [p \in DOMAIN s.ptab \cup {free[i] : i \in 1..(depth + 1)} |->
                          IF p \in DOMAIN s.ptab THEN s.ptab[p]
                          ELSE IF p = free[1] THEN 1
                          ELSE free[(CHOOSE i \in 1..(depth + 1) : free[i] = p) - 1]],
                 !.procs = Append(@, [pid |-> free[1], state |-> "running", rc |-> 0,
                                      cmd |-> cmd, waited |-> FALSE,
                                      elevated |-> FALSE])]

Spawn(s, cmd, depth) == SpawnPids(s, cmd, depth, SetToSeq(FreePids(s)))

\* ------------------------------------------------------------ run_cmd
\* cmd = <<name, argument>>; e is what the environment makes of the command:
\* e.rc, e.out, e.err for a command that is waited for, e.depth for one that is
\* left running.
\* procs[h].elevated keeps how the process was launched: with sudo, by a
\* caller that is not root.
run_cmd_register(s, sudo, dlevel) ==
    [s EXCEPT !.process = Len(s.procs),
              !.procs[Len(s.procs)].elevated = sudo /\ ~s.isroot,
              !.process_list = Append(@, Len(s.procs)),
              !.process_dmap = Put(@, s.procs[Len(s.procs)].pid, dlevel),
              !.process_smap = IF sudo /\ ~s.isroot
                               THEN @ \cup {s.procs[Len(s.procs)].pid} ELSE @,
              !.ev = Append(@, <<"launch", Len(s.procs), 0>>)]

\* A faulty classification: the error always carries stderr (C2 must fail
\* with it).
run_cmd_status_stderr(s, e) ==
    IF e.rc # 0
    THEN [s EXCEPT !.perror = e.err, !.raised = TRUE, !.exc = e.err]
    ELSE [s EXCEPT !.ret = <<e.out>>]

run_cmd_status(s, e) ==
    IF s._localhost
    THEN IF e.rc # 0
         THEN [s EXCEPT !.perror = e.err, !.raised = TRUE, !.exc = e.err]
         ELSE [s EXCEPT !.ret = <<e.out>>]
    ELSE IF e.rc = SshFail
         THEN [s EXCEPT !.raised = TRUE, !.exc = e.err]
         ELSE IF e.rc # 0
         THEN [s EXCEPT !.perror = e.out, !.raised = TRUE, !.exc = e.out]
         ELSE [s EXCEPT !.ret = <<e.out>>]

\* self.process = None ... self.returncode = 0
run_cmd_reset(s) ==
    [s EXCEPT !.process = None, !.pstdout = "", !.pstderr = "", !.perror = "",
              !.returncode = 0, !.raised = FALSE, !.exc = "", !.ret = <<>>]

\* Output bytes that are not text in the default encoding.
Undecodable == "\\xff"

\* self.pstdout, self.pstderr = self.process.communicate(), then .decode() of
\* both: bytes that are not text raise before the exit status is stored, so
\* self.returncode keeps the 0 of the reset.
run_cmd_decode(c, e) ==
    IF Undecodable \in {e.out, e.err}
    THEN [c EXCEPT !.raised = TRUE, !.exc = "UnicodeDecodeError"]
    ELSE run_cmd_status([c EXCEPT !.returncode = e.rc], e)

run_cmd(s, cmd, sudo, dlevel, wait, e) ==
    IF ~wait
    THEN run_cmd_register(Spawn(run_cmd_reset(s), cmd[1], e.depth), sudo, dlevel)
    ELSE run_cmd_decode([run_cmd_reset(s) EXCEPT
                            !.process = -1, !.pstdout = e.out, !.pstderr = e.err,
                            !.ev = Append(@, <<cmd[1], cmd[2], e.rc>>)],
                        e)

\* A blocking command whose output is of no interest: exit status rc.
Cmd(s, name, arg, sudo, dlevel, rc) ==
    run_cmd(s, <<name, arg>>, sudo, dlevel, TRUE,
            [rc |-> rc, out |-> IF rc = 0 THEN "" ELSE "out",
             err |-> IF rc = 0 THEN "" ELSE "err"])

\* try: ... except: pass
Swallow(s) == [s EXCEPT !.raised = FALSE, !.exc = ""]

\* ----------------------------------------------------------- get_pids
\* pids: process id -> parent process id, as parsed from "ps -ef".
Children(pids, cpid) == SetToSeq({p \in DOMAIN pids : pids[p] = cpid})

RECURSIVE Concat(_)
Concat(qs) == IF qs = <<>> THEN <<>> ELSE Head(qs) \o Concat(Tail(qs))

RECURSIVE get_pids_level(_, _, _)
get_pids_level(pids, plist, clist) ==
    IF clist = <<>> THEN plist
    ELSE get_pids_level(pids, plist \o clist,
                        Concat([i \in 1..Len(clist) |-> Children(pids, clist[i])]))

\* A faulty resolver: the given pid is left out of the result (C26 must fail
\* with it).
get_pids_noself(pids, pid) ==
    get_pids_level(pids, <<>>, IF pid \in DOMAIN pids THEN Children(pids, pid) ELSE <<>>)

get_pids(pids, pid) ==
    get_pids_level(pids, <<>>, IF pid \in DOMAIN pids THEN <<pid>> ELSE <<>>)

\* The method: "ps -ef" (state c after it), then the descendants of pid in the
\* table it printed.
get_pids_parsed(c, pid) ==
    IF c.raised THEN c ELSE [c EXCEPT !.ret = <<get_pids(c.ptab, pid)>>]

get_pids_cmd(s, pid, rc) ==
    get_pids_parsed(Cmd(Log(s, "get_pids", pid, 0), "ps", 0, FALSE, "DBG5", rc), pid)

\* ----------------------------------------------------------- wait_cmd
\* What the environment decides during one wait_cmd call:
\*   o.psfail   k > 0: the k-th "ps -ef" of the call fails; 0: none does
\*   o.dieson   position in the pid list -> first signal tier that process dies on
\*   o.killfail positions in the pid list whose kill commands fail
Tiers == 1..Len(Signals)

\* The signal of `tier` sent with success to process pid.
Signalled(s, pid, tier, dies) ==
    IF dies /\ pid \in DOMAIN s.ptab THEN Die(s, pid, -Signum[tier]) ELSE s

\* One pass of "for pid in reversed(pidlist)": kill commands for pidlist[i..1].
RECURSIVE kill_round(_, _, _, _, _, _)
\* A faulty pass: a kill command that fails ends it (C22 must fail with it).
kill_round_abort(s, pidlist, i, tier, dlevel, o) ==
    IF i = 0 THEN s
    ELSE IF i \in o.killfail
    THEN Swallow(Cmd(s, Signals[tier], pidlist[i], TRUE, dlevel, 1))
    ELSE kill_round(
            Signalled(Cmd(s, Signals[tier], pidlist[i], TRUE, dlevel, 0),
                      pidlist[i], tier, tier >= o.dieson[i]),
            pidlist, i - 1, tier, dlevel, o)

kill_round(s, pidlist, i, tier, dlevel, o) ==
    IF i = 0 THEN s
    ELSE kill_round(
            Signalled(Swallow(Cmd(s, Signals[tier], pidlist[i], TRUE, dlevel,
                                  IF i \in o.killfail THEN 1 ELSE 0)),
                      pidlist[i], tier, i \notin o.killfail /\ tier >= o.dieson[i]),
            pidlist, i - 1, tier, dlevel, o)

\* proc.poll(): collects the exit status of a process that has exited.
poll(s, h) ==
    IF s.procs[h].state = "exited"
    THEN [s EXCEPT !.procs[h].state = "reaped"] ELSE s

\* The loop over killsig, from signal tier `tier` with `count` rounds done in it
\* and nq process-table queries made so far: kill_loop evaluates proc.poll(),
\* kill_polled the loop condition, kill_query follows the "ps -ef" of get_pids
\* and kill_pids is the rest of the loop body.
RECURSIVE kill_loop(_, _, _, _, _, _, _)
\* The escalation is left in signal tier `tier` (the break, or the end of the
\* loop over killsig): the log keeps the size of the descendant set of the
\* target at that moment.
kill_end(s, h, tier) ==
    Log(s, "escalation", tier, Len(get_pids(s.ptab, s.procs[h].pid)))

kill_pids(q, h, tier, count, nq, dlevel, o, pidlist) ==
    IF pidlist = <<>> THEN kill_end(q, h, tier)
    ELSE kill_loop(kill_round(q, pidlist, Len(pidlist), tier, dlevel, o),
                   h, tier, count + 1, nq + 1, dlevel, o)

kill_query(q, h, tier, count, nq, dlevel, o) ==
    IF q.raised THEN q
    ELSE kill_pids(q, h, tier, count, nq, dlevel, o, get_pids(q.ptab, q.procs[h].pid))

\* A faulty loop condition: one round more than the budget in every tier
\* (C17 must fail with it).
kill_polled_extra(sp, h, tier, count, nq, dlevel, o) ==
    IF count <= Retries /\ sp.procs[h].state = "running"
    THEN kill_query(Cmd(sp, "ps", 0, FALSE, "DBG5", IF o.psfail = nq + 1 THEN 1 ELSE 0),
                    h, tier, count, nq, dlevel, o)
    ELSE IF count = 0 \/ tier = Len(Signals) THEN kill_end(sp, h, tier)
         ELSE kill_loop(sp, h, tier + 1, 0, nq, dlevel, o)

\* A faulty escalation: it is left after the first tier that made a round,
\* whatever is left of the process tree (C18 must fail with it).
kill_polled_onetier(sp, h, tier, count, nq, dlevel, o) ==
    IF count < Retries /\ sp.procs[h].state = "running"
    THEN kill_query(Cmd(sp, "ps", 0, FALSE, "DBG5", IF o.psfail = nq + 1 THEN 1 ELSE 0),
                    h, tier, count, nq, dlevel, o)
    ELSE kill_end(sp, h, tier)

kill_polled(sp, h, tier, count, nq, dlevel, o) ==
    IF count < Retries /\ sp.procs[h].state = "running"
    THEN kill_query(Cmd(sp, "ps", 0, FALSE, "DBG5", IF o.psfail = nq + 1 THEN 1 ELSE 0),
                    h, tier, count, nq, dlevel, o)
    ELSE IF count = 0 \/ tier = Len(Signals) THEN kill_end(sp, h, tier)
         ELSE kill_loop(sp, h, tier + 1, 0, nq, dlevel, o)

kill_loop(s, h, tier, count, nq, dlevel, o) ==
    kill_polled(poll(s, h), h, tier, count, nq, dlevel, o)

\* A Popen object after proc.wait() returned: the exit status was handed to the
\* caller and nothing reads the object again.
Gone(p) == [p EXCEPT !.pid = 0, !.rc = 0, !.state = "reaped", !.waited = TRUE]

\* self.process_smap.pop(proc.pid), unless the kill loop raised
smap_pop(k, pid) == IF k.raised THEN k ELSE [k EXCEPT !.process_smap = @ \ {pid}]

\* if terminate: ... for tracked process h with process id pid.
wait_terminate(s, h, pid, dl, o) ==
    IF pid \in s.process_smap
    THEN smap_pop(kill_loop(s, h, 1, 0, 0, dl, o), pid)
    ELSE IF s.procs[h].state = "running" /\ o.dieson[1] <= 2
         THEN Die(Log(s, "terminate", h, 0), pid, -Signum[2])
         ELSE Log(s, "terminate", h, 0)

\* A faulty wait: the process is removed from the registry without being
\* waited for (C20 must fail with it).
wait_reap_remove_only(s, h) ==
    IF s.raised THEN s
    ELSE [s EXCEPT !.procs[h].waited = TRUE,
                   !.process_list = Remove(@, h),
                   !.ev = Append(@, <<"wait", h, 0>>)]

\* out = proc.wait(); self.process_list.remove(proc)
wait_reap(s, h) ==
    IF s.raised THEN s
    ELSE IF s.procs[h].state = "running" THEN [s EXCEPT !.blocked = TRUE]
    ELSE [s EXCEPT !.procs[h] = Gone(@),
                   !.ret = <<s.procs[h].rc>>,
                   !.process_list = Remove(@, h),
                   !.ev = Append(@, <<"wait", h, 0>>)]

\* The debug level of the call once process h has been looked up.
wait_dlevel(s, h, dlevel) ==
    IF dlevel = "" /\ s.procs[h].pid \in DOMAIN s.process_dmap
    THEN s.process_dmap[s.procs[h].pid] ELSE dlevel

\* The body of "for proc in plist" for plist[i..]; out is the last exit status.
\* wait_proc is the body for a process found in the registry.
RECURSIVE wait_each(_, _, _, _, _, _)
wait_proc(s, plist, i, terminate, dl, o) ==
    wait_each(wait_reap(IF terminate
                        THEN wait_terminate(s, plist[i], s.procs[plist[i]].pid, dl, o)
                        ELSE s,
                        plist[i]),
              plist, i + 1, terminate, dl, o)

\* A faulty wait: a process that is not in the registry is waited for all the
\* same (C30 must fail with it).
wait_each_untracked(s, plist, i, terminate, dlevel, o) ==
    IF i > Len(plist) \/ s.raised \/ s.blocked THEN s
    ELSE IF plist[i] \notin Range(s.process_list)
    THEN wait_each([s EXCEPT !.ret = <<0>>, !.ev = Append(@, <<"wait", plist[i], 0>>)],
                   plist, i + 1, terminate, dlevel, o)
    ELSE wait_proc(s, plist, i, terminate, wait_dlevel(s, plist[i], dlevel), o)

wait_each(s, plist, i, terminate, dlevel, o) ==
    IF i > Len(plist) \/ s.raised \/ s.blocked THEN s
    ELSE IF plist[i] \notin Range(s.process_list)
    THEN wait_each(s, plist, i + 1, terminate, dlevel, o)
    ELSE wait_proc(s, plist, i, terminate, wait_dlevel(s, plist[i], dlevel), o)

\* A faulty bulk wait: only the first process of the snapshot is handled
\* (C21 must fail with it).
wait_cmd_first(s, proc, terminate, dlevel, o) ==
    wait_each([s EXCEPT !.ret = <<>>],
              IF proc # None THEN <<proc>>
              ELSE IF s.process_list = <<>> THEN <<>> ELSE <<Head(s.process_list)>>,
              1, terminate, dlevel, o)

wait_cmd(s, proc, terminate, dlevel, o) ==
    wait_each([s EXCEPT !.ret = <<>>],
              IF proc = None THEN s.process_list ELSE <<proc>>,
              1, terminate, dlevel, o)

stop_cmd(s, proc, dlevel, o) == wait_cmd(s, proc, TRUE, dlevel, o)

\* ------------------------------------------------------ debug logging
\* The kernel modules with debug flags configured, in the order of modmsgs.
DebugMods(s) ==
    (IF s.nfsdebug THEN <<"nfs">> ELSE <<>>) \o (IF s.rpcdebug THEN <<"rpc">> ELSE <<>>)

\* for mod in modmsgs.keys(), from the k-th module on, until a command raises.
\* o.dbgfail = k > 0: the k-th "rpcdebug -s" command fails.
RECURSIVE nfs_debug_set(_, _, _, _)
nfs_debug_set(s, mods, k, o) ==
    IF k > Len(mods) \/ s.raised THEN s
    ELSE nfs_debug_set(Cmd([s EXCEPT !._nfsdebug = TRUE], "rpcdebug -s", k, TRUE, "DBG2",
                           IF o.dbgfail = k THEN 1 ELSE 0),
                       mods, k + 1, o)

nfs_debug_enable(s, o) ==
    nfs_debug_set([s EXCEPT !.dbgfile = s.dbgidx, !.dbgidx = @ + 1,
                            !.dbgoffset = Len(s.messages),
                            !.marks = Put(@, s.dbgidx,
                                          [start |-> Len(s.messages), stop |-> -1]),
                            !.ev = Append(@, <<"nfs_debug_enable", 0, 0>>)],
                  DebugMods(s), 1, o)

\* o.rpcrc: the exit status of the "rpcdebug -c" commands; o.extract: "ok", or
\* which open() of the extraction fails.
nfs_debug_extract(s, o) ==
    IF o.extract = "openw" THEN [s EXCEPT !.raised = TRUE, !.exc = "IOError"]
    ELSE IF o.extract = "openr"
    THEN [s EXCEPT !.files = Put(@, s.dbgfile, <<>>), !.raised = TRUE, !.exc = "IOError"]
    ELSE [s EXCEPT
            !.files = Put(@, s.dbgfile, SubSeq(s.messages, s.dbgoffset + 1, Len(s.messages))),
            !.marks = IF s.dbgfile \in DOMAIN @ /\ @[s.dbgfile].stop < 0
                      THEN Put(@, s.dbgfile, [@[s.dbgfile] EXCEPT !.stop = Len(s.messages)])
                      ELSE @]

nfs_debug_reset(s, o) ==
    nfs_debug_extract(
        Swallow(Cmd(Swallow(Cmd(Log(s, "nfs_debug_reset", 0, 0),
                                "rpcdebug -c", 1, TRUE, "DBG2", o.rpcrc)),
                    "rpcdebug -c", 2, TRUE, "DBG2", o.rpcrc)),
        o)

\* -------------------------------------------------------- trace points
\* _tracestate is a dict: a sequence of [name, on] in insertion order.
DictHas(d, k) == \E i \in 1..Len(d) : d[i].name = k
DictSet(d, k, v) ==
    IF DictHas(d, k)
    THEN <<>> \o [i \in 1..Len(d) |-> IF d[i].name = k THEN [name |-> k, on |-> v] ELSE d[i]]
    ELSE Append(d, [name |-> k, on |-> v])

\* self.trcpointproc = self.process
trace_points_launched(r) == [r EXCEPT !.trcpointproc = r.process]

\* The loop over tracelist from its i-th name, with count names enabled so far,
\* and what follows it; trace_points_tried is the loop body after the enable
\* command (state c).  o.tpenfail: the trace points whose command fails.
RECURSIVE trace_points_set(_, _, _, _)
\* A faulty loop body: the trace point is flagged whether or not its command
\* succeeded (C25 must fail with it).
trace_points_tried_flagged(c, i, count, o) ==
    trace_points_set([Swallow(c) EXCEPT !._tracestate = DictSet(@, c.tracepoints[i], 1)],
                     i + 1, IF c.raised THEN count ELSE count + 1, o)

trace_points_tried(c, i, count, o) ==
    IF c.raised
    THEN trace_points_set(Swallow(c), i + 1, count, o)
    ELSE trace_points_set([c EXCEPT !._tracestate = DictSet(@, c.tracepoints[i], 1)],
                          i + 1, count + 1, o)

trace_points_set(s, i, count, o) ==
    IF i > Len(s.tracepoints)
    THEN IF count > 0
         THEN trace_points_launched(run_cmd(s, <<"cat", 0>>, TRUE, "DBG2", FALSE,
                                            [depth |-> o.depth]))
         ELSE s
    ELSE trace_points_tried(Cmd(s, "echo 1", s.tracepoints[i], TRUE, "DBG2",
                                IF s.tracepoints[i] \in o.tpenfail THEN 1 ELSE 0),
                            i, count, o)

trace_points_enable(s, o) ==
    IF s.tracepoints = <<>> THEN s
    ELSE trace_points_set(Log(s, "trace_points_enable", 0, 0), 1, 0, o)

\* The loop over _tracestate from its i-th key; trace_points_untried is the
\* loop body after the disable command (state c).  o.tpdisfail: the trace
\* points whose command fails.  The handler of that failure reads the unbound
\* name err: a NameError leaves the method.
RECURSIVE trace_points_clear(_, _, _)
trace_points_untried(c, i, o) ==
    IF c.raised THEN [c EXCEPT !.exc = "NameError"]
    ELSE trace_points_clear([c EXCEPT !._tracestate = DictSet(@, c._tracestate[i].name, 0)],
                            i + 1, o)

trace_points_clear(s, i, o) ==
    IF i > Len(s._tracestate) THEN s
    ELSE IF s._tracestate[i].on = 0 THEN trace_points_clear(s, i + 1, o)
    ELSE trace_points_untried(Cmd(s, "echo 0", s._tracestate[i].name, TRUE, "DBG2",
                                  IF s._tracestate[i].name \in o.tpdisfail THEN 1 ELSE 0),
                              i, o)

\* self.trcpointproc = None, once stop_cmd has returned (state k)
trace_points_stopped(k) ==
    IF k.raised \/ k.blocked THEN k ELSE [k EXCEPT !.trcpointproc = None, !.ret = <<>>]

\* if self.trcpointproc is not None: ...
trace_points_stop(s, o) ==
    IF s.raised \/ s.trcpointproc = None THEN s
    ELSE trace_points_stopped(stop_cmd(s, s.trcpointproc, "DBG2", o.kill))

trace_points_reset(s, o) ==
    trace_points_stop(trace_points_clear(Log(s, "trace_points_reset", 0, 0), 1, o), o)

\* ----------------------------------------------------------- statistics
nfsstat_init(s, o) ==
    IF ~s.nfsstats THEN s
    ELSE Cmd([s EXCEPT !.ntemp = @ + 1, !.nfsstattemp = s.ntemp + 1,
                       !.tempfiles = @ \cup {s.ntemp + 1},
                       !.ev = Append(@, <<"nfsstat_init", 0, 0>>)],
             "nfsstat", 0, FALSE, "DBG2", o.statinitrc)

\* finally: os.unlink(self.nfsstattemp); self.nfsstattemp = ""
nfsstat_unlink(c) == [c EXCEPT !.tempfiles = @ \ {c.nfsstattemp}, !.nfsstattemp = 0]

nfsstat_get(s, o) ==
    IF ~s.nfsstats \/ s.nfsstattemp = 0 THEN Log(s, "nfsstat_get", 0, 0)
    ELSE nfsstat_unlink(Cmd(Log(s, "nfsstat_get", 0, 0), "nfsstat -l", 0, FALSE, "DBG2",
                            o.statrc))

\* ------------------------------------------------ trace_stop, trace_start
\* A statement is reached only in a state that no earlier statement of the
\* method left by raising, or by never returning.
Failed(s) == s.raised \/ s.blocked

\* self.traceproc = None, once stop_cmd has returned (state k)
trace_stop_captured(k) == IF Failed(k) THEN k ELSE [k EXCEPT !.traceproc = None]

\* The four stages of trace_stop, in the order of its statements.
trace_stop_capture(s, o) ==
    IF s.traceproc = None THEN s
    ELSE trace_stop_captured(stop_cmd(s, s.traceproc, "DBG5", o.kill))

trace_stop_debug(s, o) ==
    IF Failed(s) THEN s
    ELSE IF ~s.notrace /\ s._nfsdebug THEN nfs_debug_reset(s, o) ELSE s

trace_stop_points(s, o) == IF Failed(s) THEN s ELSE trace_points_reset(s, o)

trace_stop_stats(s, o) == IF Failed(s) THEN s ELSE nfsstat_get(s, o)

\* A faulty trace_stop: no handler around the stages (C11 must fail with it).
trace_stop_noexcept(s) == s

\* try: ... except: return
trace_stop_except(s) == [s EXCEPT !.raised = FALSE, !.exc = "", !.ret = <<>>]

trace_stop(s, o) ==
    trace_stop_except(
        trace_stop_stats(
            trace_stop_points(
                trace_stop_debug(
                    trace_stop_capture(Log(s, "trace_stop", 0, 0), o), o), o), o))

\* if self.process.poll() is not None: raise Exception(out)
trace_dead(d) == [poll(d, d.traceproc) EXCEPT !.raised = TRUE, !.exc = "out"]

\* self.traceproc = self.process, and the check that tcpdump has started.
\* o.startup: "listening" (the first line says so), "silent" (it does not, the
\* process runs), "dead" (it does not, and the process has exited when polled)
\* or "gone" (the first line says so, and the process exits after it).  The
\* log keeps whether the line read says 'listening on'.
trace_readline(r, o) ==
    Log([r EXCEPT !.traceproc = r.process], "readline", r.process,
        IF o.startup \in {"listening", "gone"} THEN 1 ELSE 0)

\* The capture process exits by itself, with everything below it.
trace_exited(d) ==
    DieAll(d, Reverse(get_pids(d.ptab, d.procs[d.traceproc].pid)), 1)

\* A faulty check: a first line that does not say 'listening on' is a start
\* failure, whether or not the process runs (C27 must fail with it).
trace_launched_strict(r, o) ==
    IF o.startup = "dead" THEN trace_dead(trace_exited(trace_readline(r, o)))
    ELSE IF o.startup = "silent" THEN trace_dead(trace_readline(r, o))
    ELSE IF o.startup = "gone" THEN trace_exited(trace_readline(r, o))
    ELSE trace_readline(r, o)

trace_launched(r, o) ==
    IF o.startup = "dead" THEN trace_dead(trace_exited(trace_readline(r, o)))
    ELSE IF o.startup = "gone" THEN trace_exited(trace_readline(r, o))
    ELSE trace_readline(r, o)

trace_capture(s, o) ==
    trace_launched(run_cmd(s, <<"tcpdump", 0>>, TRUE, "DBG2", FALSE, [depth |-> o.depth]),
                   o)

\* The statements of trace_start after trace_stop, in their order.
trace_start_file(s) == [s EXCEPT !.tracefile = s.traceidx, !.traceidx = @ + 1]

trace_start_debug(s, o) ==
    IF s.blocked \/ s.notrace \/ DebugMods(s) = <<>> THEN s ELSE nfs_debug_enable(s, o)

trace_start_points(s, o) ==
    IF Failed(s) \/ s.notrace THEN s ELSE trace_points_enable(s, o)

trace_start_stats(s, o) ==
    IF Failed(s) \/ s.notrace THEN s ELSE nfsstat_init(s, o)

trace_start_capture(s, o) ==
    IF Failed(s) \/ s.notrace THEN s ELSE trace_capture(s, o)

trace_start_return(s) == IF Failed(s) THEN s ELSE [s EXCEPT !.ret = <<s.tracefile>>]

\* A faulty trace_start: the capture is launched before the statistics
\* snapshot is taken (C14 must fail with it).
trace_start_capture_first(s, o1, o2) ==
    trace_start_return(
        trace_start_stats(
            trace_start_capture(
                trace_start_points(
                    trace_start_debug(trace_start_file(trace_stop(s, o1)), o2), o2), o2), o2))

trace_start(s, o1, o2) ==
    trace_start_return(
        trace_start_capture(
            trace_start_stats(
                trace_start_points(
                    trace_start_debug(trace_start_file(trace_stop(s, o1)), o2), o2), o2), o2))

\* ------------------------------------------------- mount, umount, cleanup
\* self.mounted = True, once the mount command has returned (state c)
mount_done(c) ==
    IF c.raised THEN c ELSE [c EXCEPT !.mounted = TRUE, !.ret = <<"mtpoint">>]

mount(s, rc) ==
    IF s.nomount THEN Log(s, "mount", 0, 0)
    ELSE mount_done(Cmd(Log(s, "mount", 0, 0), "mount -o", 0, TRUE, "DBG2", rc))

\* re.search('not (mounted|found)|Invalid argument', self.perror)
NotMounted(text) == text \in {"not mounted", "not found", "Invalid argument"}

Attempts == 5

\* for i in range(5), from the i-th attempt; umount_tried is the loop body
\* after the umount command (state c).  um: the outcome [rc, out, err] of each
\* of the umount commands.
RECURSIVE umount_try(_, _, _)
umount_tried(c, i, um) ==
    IF c.returncode = 0 \/ NotMounted(c.perror)
    THEN [c EXCEPT !.mounted = FALSE, !.ret = <<>>]
    ELSE umount_try(c, i + 1, um)

umount_try(s, i, um) ==
    IF i > Attempts THEN s
    ELSE umount_tried(Swallow(run_cmd(s, <<"umount -f", i>>, TRUE, "DBG2", TRUE, um[i])),
                      i, um)

umount(s, um) ==
    IF s.nomount THEN Log(s, "umount", 0, 0)
    ELSE [umount_try(Log(s, "umount", 0, 0), 1, um) EXCEPT !.ret = <<>>]

network_drop(s, rc) ==
    Cmd([s EXCEPT !.need_network_reset = TRUE], "iptables -A", 0, TRUE, "DBG6", rc)

network_reset(s, rc) ==
    Swallow(Cmd(Swallow(Cmd(Log(s, "network_reset", 0, 0),
                            "iptables --flush", 0, TRUE, "DBG6", rc)),
                "iptables --delete-chain", 0, TRUE, "DBG6", rc))

\* The body of "for rfile in reversed(self.remove_list)" for file f.  o.delfail:
\* the files whose removal fails.
remove_file(s, f, o) ==
    IF f \notin s.artifacts THEN s
    ELSE IF f \in o.delfail THEN Log(s, "unlink", f, 1)
    ELSE Log([s EXCEPT !.artifacts = @ \ {f}], "unlink", f, 0)

\* q is the reversed list.
RECURSIVE remove_files(_, _, _)
remove_files(s, q, o) ==
    IF q = <<>> THEN s
    ELSE remove_files(remove_file(s, Head(q), o), Tail(q), o)

\* A faulty cleanup: the flag that cleanup has run is never set (C1 must fail
\* with it).
cleanup_begin_noflag(s) ==
    [s EXCEPT !.remove_list = IF s.nocleanup THEN <<>> ELSE @]

cleanup_begin(s) ==
    [s EXCEPT !.remove_list = IF s.nocleanup THEN <<>> ELSE @,
              !._hcleanup_done = TRUE]

\* The statements of cleanup after trace_stop, in their order.
cleanup_network(s, o) ==
    IF s.blocked \/ ~s.need_network_reset THEN s ELSE network_reset(s, o.netrc)

cleanup_mount(s, o) ==
    IF s.blocked \/ s.mounted \/ s.remove_list = <<>> THEN s ELSE mount(s, o.mountrc)

cleanup_remove(s, o) ==
    IF Failed(s) THEN s ELSE remove_files(s, Reverse(s.remove_list), o)

cleanup_umount(s, o) ==
    IF Failed(s) \/ ~s.mounted THEN s ELSE umount(s, o.um)

cleanup_return(s) == IF Failed(s) THEN s ELSE [s EXCEPT !.ret = <<>>]

\* A faulty cleanup: the volume is unmounted before the files are removed
\* (C16 must fail with it).
cleanup_umount_first(s, o) ==
    IF s._hcleanup_done THEN s
    ELSE cleanup_return(
            cleanup_remove(
                cleanup_umount(
                    cleanup_mount(
                        cleanup_network(trace_stop(cleanup_begin(s), o), o), o), o), o))

cleanup(s, o) ==
    IF s._hcleanup_done THEN s
    ELSE cleanup_return(
            cleanup_umount(
                cleanup_remove(
                    cleanup_mount(
                        cleanup_network(trace_stop(cleanup_begin(s), o), o), o), o), o))

\* ---------------------------------------------------------------- Init
\* The attributes as __init__ leaves them, on a machine with an empty system
\* log and no process of the controller's.
InitAttributes ==
    /\ nocleanup = TRUE /\ _hcleanup_done = FALSE /\ mounted = FALSE
    /\ need_network_reset = FALSE /\ remove_list = <<>>
    /\ process = None /\ pstdout = "" /\ pstderr = "" /\ perror = "" /\ returncode = 0
    /\ process_list = <<>> /\ process_smap = {} /\ process_dmap = <<>>
    /\ traceproc = None /\ trcpointproc = None /\ traceidx = 1 /\ tracefile = 0
    /\ _nfsdebug = FALSE /\ dbgoffset = 0 /\ dbgfile = 0 /\ dbgidx = 1
    /\ _tracestate = <<>> /\ nfsstattemp = 0
    /\ procs = <<>> /\ ptab = <<>> /\ messages = <<>> /\ files = <<>>
    /\ tempfiles = {} /\ ntemp = 0 /\ artifacts = {}
    /\ op = "init" /\ ev = <<>> /\ raised = FALSE /\ exc = "" /\ ret = <<>>
    /\ blocked = FALSE /\ marks = <<>> /\ ncleanup = 0

\* --------------------------------------------------- shared actions
Handles == 1..Len(procs)

\* What the environment may decide during a terminate-wait that sees pid lists
\* of up to n processes.
KillOracles(n) ==
    {[psfail |-> f, dieson |-> d, killfail |-> k] :
        f \in 0..2, d \in [1..n -> Tiers], k \in {{}} \cup {{i} : i \in 1..n}}

\* The same, for the specifications that are not about the escalation: every
\* process of the tree dies on the same signal, and the first query may fail.
PlainOracles(n) ==
    {[psfail |-> f, dieson |-> [i \in 1..n |-> d], killfail |-> {}] :
        f \in 0..1, d \in {1, Len(Signals)}}

NoOracle == [psfail |-> 0, dieson |-> <<1>>, killfail |-> {}]

\* The largest pid list a terminate-wait of the tracked processes can see.
TreeSize(s) ==
    LET n == {Len(get_pids(s.ptab, s.procs[h].pid)) : h \in Range(s.process_list)} \cup {1}
    IN CHOOSE x \in n : \A y \in n : y <= x

\* A launched command finishes by itself, with everything it started.
ProcExit ==
    \E h \in Handles, code \in {0, 1} :
        /\ ~blocked /\ procs[h].state = "running"
        /\ Apply(DieAll(St, Reverse(get_pids(ptab, procs[h].pid)), code))

NoSession ==
    /\ notrace = FALSE /\ nfsdebug = FALSE /\ rpcdebug = FALSE
    /\ tracepoints = <<>> /\ nfsstats = FALSE /\ nomount = FALSE

\* ------------------------------------------- the registry: Spec
RunCmdWait ==
    \E rc \in {0, 1} :
        Apply(Cmd(Call("run_cmd"), "cmd", 0, FALSE, "DBG1", rc))

RunCmdNoWait ==
    /\ Len(procs) < MaxHandles
    /\ \E sudo \in BOOLEAN :
        Apply(run_cmd(Call("run_cmd_nowait"), <<"cmd", 0>>, sudo, "DBG1", FALSE,
                      [depth |-> 1]))

WaitCmd ==
    \E proc \in {None} \cup Handles :
        \E t \in {wait_cmd(Call("wait_cmd"), proc, FALSE, "", NoOracle)} :
           ~t.blocked /\ Apply(t)

StopCmd ==
    \E proc \in {None} \cup Handles :
        \E o \in PlainOracles(TreeSize(St)) :
            \E t \in {stop_cmd(Call("stop_cmd"), proc, "", o)} :
               ~t.blocked /\ Apply(t)

Init ==
    /\ InitAttributes /\ NoSession
    /\ _localhost = TRUE /\ isroot \in BOOLEAN

Next == RunCmdWait \/ RunCmdNoWait \/ WaitCmd \/ StopCmd \/ ProcExit

Spec == Init /\ [][Next]_vars

\* ------------------------------------------- the executor: SpecExec
Texts   == {"", "out", "err"}
ExitRCs == {0, 1, 2, SshFail}

Execute ==
    \E sudo \in BOOLEAN, rc \in ExitRCs, out \in Texts, err \in Texts :
        Apply(run_cmd(Call("run_cmd"), <<"cmd", 0>>, sudo, "DBG1", TRUE,
                      [rc |-> rc, out |-> out, err |-> err]))

ExecuteNoWait ==
    /\ Len(procs) < 1
    /\ \E sudo \in BOOLEAN :
        Apply(run_cmd(Call("run_cmd_nowait"), <<"cmd", 0>>, sudo, "DBG1", FALSE,
                      [depth |-> 0]))

InitExec ==
    /\ InitAttributes /\ NoSession
    /\ _localhost \in BOOLEAN /\ isroot \in BOOLEAN

NextExec == Execute \/ ExecuteNoWait

SpecExec == InitExec /\ [][NextExec]_vars

\* ---------------------------------------- the escalation: SpecKill
Launch ==
    /\ ~blocked /\ Len(procs) < 1
    /\ \E sudo \in BOOLEAN, depth \in 0..MaxDepth :
        Apply(run_cmd(Call("run_cmd_nowait"), <<"cmd", 0>>, sudo, "DBG1", FALSE,
                      [depth |-> depth]))

\* stop_cmd; a call that gave up the escalation with the process still running
\* stays in proc.wait(): the controller makes no further call (blocked).
Terminate ==
    /\ ~blocked
    /\ \E proc \in Handles :
          \E o \in KillOracles(TreeSize(St)) :
             Apply(stop_cmd(Call("stop_cmd"), proc, "", o))

InitKill ==
    /\ InitAttributes /\ NoSession
    /\ _localhost = TRUE /\ isroot \in BOOLEAN

NextKill == Launch \/ Terminate \/ ProcExit

SpecKill == InitKill /\ [][NextKill]_vars

\* ---------------------------------------- the session: SpecTrace
\* What the environment may decide during trace_stop: nothing fails, or one of
\* its commands does (a failure that raises ends the method, so a second one
\* would not be seen).
StopOk(s) ==
    [kill |-> [psfail |-> 0, dieson |-> [i \in 1..TreeSize(s) |-> 1], killfail |-> {}],
     rpcrc |-> 0, extract |-> "ok", tpdisfail |-> {}, statrc |-> 0]

StopOracles(s) ==
    {StopOk(s), [StopOk(s) EXCEPT !.kill.psfail = 1], [StopOk(s) EXCEPT !.rpcrc = 1],
     [StopOk(s) EXCEPT !.statrc = 1]}
    \cup {[StopOk(s) EXCEPT !.extract = x] : x \in {"openw", "openr"}}
    \cup {[StopOk(s) EXCEPT !.tpdisfail = {n}] : n \in Range(s.tracepoints)}

\* What the environment may decide during the stages of trace_start: nothing
\* fails, or one thing does.
StartOk == [dbgfail |-> 0, tpenfail |-> {}, statinitrc |-> 0, startup |-> "listening",
            depth |-> 1]

StartOracles(s) ==
    {StartOk, [StartOk EXCEPT !.dbgfail = 1], [StartOk EXCEPT !.statinitrc = 1]}
    \cup {[StartOk EXCEPT !.startup = u] : u \in {"silent", "dead"}}
    \cup {[StartOk EXCEPT !.tpenfail = f] : f \in SUBSET Range(s.tracepoints)}

TraceStart ==
    /\ traceidx <= MaxSessions
    /\ \E o1 \in StopOracles(St), o2 \in StartOracles(St) :
          \E t \in {trace_start(Call("trace_start"), o1, o2)} :
             ~t.blocked /\ Apply(t)

TraceStop ==
    \E o \in StopOracles(St) :
        \E t \in {trace_stop(Call("trace_stop"), o)} :
           ~t.blocked /\ Apply(t)

\* Another process appends a byte to the system log.
AppendLog ==
    /\ Len(messages) < MaxLog
    /\ messages' = Append(messages, Len(messages) + 1)
    /\ UNCHANGED <<_localhost, isroot, notrace, nfsdebug, rpcdebug, tracepoints,
                   nfsstats, nomount, nocleanup, _hcleanup_done, mounted,
                   need_network_reset, remove_list, process, pstdout, pstderr,
                   perror, returncode, process_list, process_smap, process_dmap,
                   traceproc, trcpointproc, traceidx, tracefile, _nfsdebug,
                   dbgoffset, dbgfile, dbgidx, _tracestate, nfsstattemp, procs,
                   ptab, files, tempfiles, ntemp, artifacts, op, ev, raised, exc,
                   ret, blocked, marks, ncleanup>>

InitTrace ==
    /\ InitAttributes
    /\ _localhost = TRUE /\ isroot \in BOOLEAN /\ notrace = FALSE
    /\ nfsdebug = TRUE /\ rpcdebug = FALSE
    /\ tracepoints = <<1, 2>> /\ nfsstats = TRUE /\ nomount = FALSE

NextTrace == TraceStart \/ TraceStop \/ AppendLog

SpecTrace == InitTrace /\ [][NextTrace]_vars

\* ------------------------------------ the trace points: SpecPoints
TracePointsEnable ==
    /\ Len(procs) < MaxHandles
    /\ \E o2 \in StartOracles(St) :
          Apply(trace_points_enable(Call("trace_points_enable"), o2))

TracePointsReset ==
    \E o \in StopOracles(St) :
        \E t \in {trace_points_reset(Call("trace_points_reset"), o)} :
           ~t.blocked /\ Apply(t)

InitPoints ==
    /\ InitAttributes
    /\ _localhost = TRUE /\ isroot \in BOOLEAN /\ notrace = FALSE
    /\ nfsdebug = FALSE /\ rpcdebug = FALSE
    /\ tracepoints = <<1, 2>> /\ nfsstats = FALSE /\ nomount = FALSE

NextPoints == TracePointsEnable \/ TracePointsReset \/ ProcExit

SpecPoints == InitPoints /\ [][NextPoints]_vars

\* ----------------------------------------- the teardown: SpecCleanup
\* The outcome of the umount commands of one umount call: the command works,
\* fails once, reports that nothing is mounted, or fails every time.
UmountOk   == [rc |-> 0, out |-> "", err |-> ""]
UmountBusy == [rc |-> 1, out |-> "", err |-> "busy"]
UmountGone == [rc |-> 1, out |-> "", err |-> "not mounted"]
UmountOracles ==
    {[i \in 1..Attempts |-> UmountOk],
     [i \in 1..Attempts |-> IF i = 1 THEN UmountBusy ELSE UmountOk],
     [i \in 1..Attempts |-> UmountGone],
     [i \in 1..Attempts |-> UmountBusy]}

\* What the environment may decide during cleanup, for the commands that the
\* call can come to run in state s.
CleanupOracles(s) ==
    LET live  == ~s._hcleanup_done
        todo == live /\ ~s.nocleanup /\ s.remove_list # <<>>
    IN {[kill |-> k, rpcrc |-> 0, extract |-> "ok", tpdisfail |-> {}, statrc |-> 0,
         netrc |-> n, mountrc |-> m, delfail |-> d, um |-> u] :
           k \in {StopOk(s).kill} \cup
                 (IF live /\ s.traceproc # None
                  THEN {[StopOk(s).kill EXCEPT !.psfail = 1]} ELSE {}),
           n \in IF live /\ s.need_network_reset THEN {0, 1} ELSE {0},
           m \in IF todo /\ ~s.mounted THEN {0, 1} ELSE {0},
           d \in IF todo THEN {{}} \cup {{f} : f \in 1..Len(s.remove_list)} ELSE {{}},
           u \in IF live /\ (todo \/ s.mounted) THEN UmountOracles
                 ELSE {[i \in 1..Attempts |-> UmountOk]}}

\* The owner of the controller asks for the files it creates to be removed.
SetCleanup ==
    /\ nocleanup /\ ~_hcleanup_done
    /\ Apply([St EXCEPT !.nocleanup = FALSE])

\* The owner creates a file and registers it for removal.
AddRemove ==
    /\ Len(remove_list) < MaxRemove
    /\ LET f == Len(remove_list) + 1
       IN Apply([St EXCEPT !.remove_list = Append(@, f), !.artifacts = @ \cup {f}])

Mount == \E rc \in {0, 1} : Apply(mount(Call("mount"), rc))

Umount == \E um \in UmountOracles : Apply(umount(Call("umount"), um))

NetworkDrop == \E rc \in {0, 1} : Apply(network_drop(Call("network_drop"), rc))

Capture ==
    /\ traceidx <= MaxSessions
    /\ \E o1 \in {StopOk(St)}, o2 \in {StartOk} :
          \E t \in {trace_start(Call("trace_start"), o1, o2)} :
             ~t.blocked /\ Apply(t)

Cleanup ==
    /\ ncleanup < MaxCalls
    /\ \E o \in CleanupOracles(St) :
          \E t \in {cleanup([Call("cleanup") EXCEPT !.ncleanup = @ + 1], o)} :
             ~t.blocked /\ Apply(t)

\* __del__: the controller is collected.
Destructor ==
    /\ ncleanup < MaxCalls
    /\ \E o \in CleanupOracles(St) :
          \E t \in {cleanup([Call("__del__") EXCEPT !.ncleanup = @ + 1], o)} :
             ~t.blocked /\ Apply(t)

InitCleanup ==
    /\ InitAttributes /\ NoSession
    /\ _localhost = TRUE /\ isroot \in BOOLEAN

NextCleanup ==
    SetCleanup \/ AddRemove \/ Mount \/ Umount \/ NetworkDrop \/ Capture
    \/ Cleanup \/ Destructor

SpecCleanup == InitCleanup /\ [][NextCleanup]_vars

\* ------------------------------------------- the bulk forms: SpecBulk
\* wait_cmd() and stop_cmd() with no process: every call is for the whole
\* registry.
WaitAll ==
    \E t \in {wait_cmd(Call("wait_cmd"), None, FALSE, "", NoOracle)} :
       ~t.blocked /\ Apply(t)

StopAll ==
    \E o \in PlainOracles(TreeSize(St)) :
        \E t \in {stop_cmd(Call("stop_cmd"), None, "", o)} :
           ~t.blocked /\ Apply(t)

NextBulk == RunCmdNoWait \/ WaitAll \/ StopAll \/ ProcExit

SpecBulk == Init /\ [][NextBulk]_vars

\* ------------------------------------- the descendant resolver: SpecPids
\* The process tables that "ps -ef" can print for MaxPids process ids: every
\* process has one parent, which is init (1), a process that is not listed
\* (MaxPids + 2) or another listed process, and no process is its own
\* ancestor.
TablePids == 2..(MaxPids + 1)

Acyclic(pids) ==
    \A S \in SUBSET DOMAIN pids : S # {} => \E p \in S : pids[p] \notin S

Tables ==
    UNION {{pids \in [D -> {1, MaxPids + 2} \cup TablePids] : Acyclic(pids)} :
             D \in SUBSET TablePids}

\* The processes of the machine change.
Processes ==
    \E pids \in Tables :
        /\ pids # ptab
        /\ Apply([Call("processes") EXCEPT !.ptab = pids])

GetPids ==
    \E pid \in TablePids \cup {MaxPids + 2}, rc \in {0, 1} :
        Apply(get_pids_cmd(Call("get_pids"), pid, rc))

NextPids == Processes \/ GetPids

SpecPids == Init /\ [][NextPids]_vars

\* ------------------------------------ the readiness check: SpecReady
\* trace_start and trace_stop of a controller with no other stage configured,
\* with every startup behaviour of the capture process.
ReadyOracles ==
    {[StartOk EXCEPT !.startup = u, !.depth = d] :
        u \in {"listening", "silent", "dead", "gone"}, d \in 0..MaxDepth}

ReadyStart ==
    /\ traceidx <= MaxSessions
    /\ \E o1 \in StopOracles(St), o2 \in ReadyOracles :
          \E t \in {trace_start(Call("trace_start"), o1, o2)} :
             ~t.blocked /\ Apply(t)

NextReady == ReadyStart \/ TraceStop

SpecReady == Init /\ [][NextReady]_vars

\* ----------------------------- the session and the registry: SpecHandles
\* The session methods together with wait_cmd and stop_cmd called by the
\* owner of the controller, for one process or for the whole registry.
NextHandles ==
    Capture \/ TraceStop \/ TracePointsEnable \/ TracePointsReset \/ WaitCmd \/ StopCmd

SpecHandles == InitPoints /\ [][NextHandles]_vars

\* ============================================================ claims
\* C1: cleanup is idempotent.  Every call of cleanup (direct, or through the
\* destructor) leaves the flag _hcleanup_done set, and a call made when the flag
\* is already set runs no command, stops no process, removes no file, raises
\* nothing and changes no attribute of the controller and nothing on the machine:
\* calling it twice ends in the state that calling it once ends in.
\* (Under SpecCleanup: ncleanup counts the calls.)
C1_CleanupIdempotent ==
    [][ncleanup' = ncleanup + 1 =>
          /\ _hcleanup_done'
          /\ _hcleanup_done =>
                /\ ev' = <<>> /\ ~raised'
                /\ UNCHANGED <<_localhost, isroot, notrace, nfsdebug, rpcdebug,
                               tracepoints, nfsstats, nomount, nocleanup,
                               _hcleanup_done, mounted, need_network_reset,
                               remove_list, process, pstdout, pstderr, perror,
                               returncode, process_list, process_smap,
                               process_dmap, traceproc, trcpointproc, traceidx,
                               tracefile, _nfsdebug, dbgoffset, dbgfile, dbgidx,
                               _tracestate, nfsstattemp, procs, ptab, messages,
                               files, tempfiles, ntemp, artifacts, marks>>]_vars

C1_Witness ==
    /\ ncleanup = 2 /\ op = "__del__" /\ ev = <<>> /\ _hcleanup_done
    /\ remove_list # <<>> /\ artifacts = {} /\ ~mounted /\ traceproc = None
    /\ procs # <<>>

\* C2: a blocking run_cmd whose command exits 0 returns the captured stdout and
\* raises nothing; a local command that exits non-zero raises an error carrying
\* stderr; a remote command that exits 255 raises an error carrying stderr; a
\* remote command with any other non-zero exit raises an error carrying stdout.
\* (Under SpecExec: the exit code is the one logged for the command.)
C2_ExitCodeClassification ==
    op = "run_cmd" =>
        LET rc == ev[1][3] IN
        /\ rc = 0 => (~raised /\ ret = <<pstdout>>)
        /\ (rc # 0 /\ _localhost) => (raised /\ exc = pstderr)
        /\ (rc = SshFail /\ ~_localhost) => (raised /\ exc = pstderr)
        /\ (rc \notin {0, SshFail} /\ ~_localhost) => (raised /\ exc = pstdout)

C2_Witness ==
    /\ op = "run_cmd" /\ ~_localhost /\ ev[1][3] = 1
    /\ raised /\ exc = "out" /\ pstderr = "err"

\* C3: the registry holds exactly the processes launched by a non-blocking
\* run_cmd that wait_cmd/stop_cmd has not yet waited on, each once; nothing
\* else (no process of a blocking run_cmd) is ever in it.
C3_RegistryInvariant ==
    /\ Range(process_list) = {h \in Handles : ~procs[h].waited}
    /\ Cardinality(Range(process_list)) = Len(process_list)

C3_Witness ==
    /\ op = "stop_cmd"
    /\ \E h \in Handles : procs[h].waited /\ h \notin Range(process_list)
    /\ \E h \in Handles : ~procs[h].waited /\ h \in Range(process_list)

\* C4: when stop_cmd returns from stopping a running process A that was launched
\* elevated by a non-root caller and has the descendant chain A -> B -> C, none
\* of A, B, C is alive, and the kill commands used at most the three signals.
\* (Under SpecKill.)
C4_DescendantTermination ==
    [][\A h \in Handles :
          LET tree == get_pids(ptab, procs[h].pid) IN
          ( /\ op' = "stop_cmd" /\ ~raised'
            /\ h \in Range(process_list) /\ h \notin Range(process_list')
            /\ procs[h].state = "running" /\ procs[h].pid \in process_smap
            /\ Len(tree) = 3 )
          => /\ \A p \in Range(tree) : p \notin DOMAIN ptab'
             /\ Cardinality({e[1] : e \in {x \in Range(ev') : x[1] \in Range(Signals)}}) <= 3
      ]_vars

\* C9: when a tracked process leaves the registry (plain wait or termination),
\* no entry keyed by its process id remains in process_dmap or process_smap.
C9_MetadataRemoved ==
    [][\A h \in Handles :
          (h \in Range(process_list) /\ h \notin Range(process_list'))
          => /\ procs[h].pid \notin DOMAIN process_dmap'
             /\ procs[h].pid \notin process_smap'
      ]_vars

\* C5: when trace_start is called while a packet-capture process is active, the
\* previous capture process is terminated, reaped and removed from the registry
\* before the new capture process is launched.
\* (Under SpecTrace: only trace_start changes traceidx.)
C5_SessionNesting ==
    [][(traceidx' # traceidx /\ traceproc # None
        /\ traceproc \in Range(process_list)
        /\ procs[traceproc].state = "running")
       => \A i \in DOMAIN ev' :
             (ev'[i][1] = "launch" /\ procs'[ev'[i][2]].cmd = "tcpdump")
             => /\ \E j \in 1..(i - 1) : ev'[j] = <<"wait", traceproc, 0>>
                /\ traceproc \notin Range(process_list')
                /\ procs'[traceproc].state = "reaped"]_vars

\* C6: in every state reached by trace_start and trace_stop calls, failing
\* stages included, the registry holds at most one packet-capture process.
\* (Under SpecTrace.)
C6_OneCapture ==
    Cardinality({h \in Range(process_list) : procs[h].cmd = "tcpdump"}) <= 1

\* C7: in every state the registry holds at most one trace-pipe copy process:
\* enabling the trace points while one runs stops it first.
\* (Under SpecPoints.)
C7_OneCopyProcess ==
    Cardinality({h \in Range(process_list) : procs[h].cmd = "cat"}) <= 1

\* C8: the debug output file of a session whose log extraction has run holds
\* exactly the bytes appended to the system log between the start of that
\* session and that extraction, and keeps holding them whatever trace_stop and
\* trace_start calls follow.
\* (Under SpecTrace: marks records the log size at the start and at the stop.)
C8_LogExtraction ==
    \A f \in DOMAIN marks :
        marks[f].stop >= 0 =>
            /\ f \in DOMAIN files
            /\ files[f] = SubSeq(messages, marks[f].start + 1, marks[f].stop)

\* C10: a trace_stop call runs every stop stage, whichever stage fails: the
\* debug reset when debug logging was enabled, the trace-point reset and the
\* statistics capture.
\* (Under SpecTrace: ev lists the stages the call entered.)
C10_StopTolerance ==
    op = "trace_stop" =>
        /\ \E i \in DOMAIN ev : ev[i][1] = "trace_points_reset"
        /\ \E i \in DOMAIN ev : ev[i][1] = "nfsstat_get"
        /\ _nfsdebug => \E i \in DOMAIN ev : ev[i][1] = "nfs_debug_reset"

\* C11: trace_stop never propagates an error to its caller: whichever stage
\* fails, and with or without an active session, the call returns normally.
\* (Under SpecTrace.)
C11_StopNeverRaises == op = "trace_stop" => (~raised /\ exc = "")

C11_Witness ==
    /\ op = "trace_stop" /\ ~raised
    /\ \E i \in DOMAIN ev : ev[i] = <<"ps", 0, 1>>
    /\ traceproc # None

\* C12: cleanup never propagates an error: a failure of the network reset, of
\* the mount made for the deletions, of a deletion or of the unmount does not
\* raise out of cleanup, and the later steps are still made.
\* (Under SpecCleanup.)
C12_CleanupNeverRaises == op = "cleanup" => ~raised

\* C13: fail-fast start: whenever trace_start raises, nothing is recorded as
\* active: no capture handle is kept, the registry keeps no capture process,
\* and no earlier stage (debug logging, trace points and their copy process,
\* statistics snapshot) is left active.  (Under SpecTrace.)
C13_FailFastStart ==
    (op = "trace_start" /\ raised) =>
        /\ traceproc = None
        /\ \A i \in DOMAIN process_list : procs[process_list[i]].cmd # "tcpdump"
        /\ ~_nfsdebug
        /\ trcpointproc = None
        /\ nfsstattemp = None

\* C14: start ordering: within trace_start, debug logging is enabled, then the
\* trace points are enabled (and their copy process launched), then the
\* statistics snapshot is taken, then the capture is launched, one after the
\* other: every command of a stage runs before the next stage begins, and the
\* capture is never launched before the other three stages have run.
\* (Under SpecTrace, where all three stages are configured.)
C14_StartOrdering ==
    op = "trace_start" =>
        \A i \in DOMAIN ev :
            (ev[i][1] = "launch" /\ procs[ev[i][2]].cmd = "tcpdump") =>
                \E a, b, c \in 1..(i - 1) :
                    /\ a < b /\ b < c
                    /\ ev[a][1] = "nfs_debug_enable"
                    /\ ev[b][1] = "trace_points_enable"
                    /\ ev[c][1] = "nfsstat_init"
                    /\ \A j \in (a + 1)..(b - 1) : ev[j][1] = "rpcdebug -s"
                    /\ \A j \in (b + 1)..(c - 1) : ev[j][1] \in {"echo 1", "launch"}
                    /\ \A j \in (c + 1)..(i - 1) : ev[j][1] = "nfsstat"
                    /\ \A j \in (i + 1)..Len(ev) : ev[j][1] \notin
                          {"nfs_debug_enable", "rpcdebug -s", "trace_points_enable",
                           "echo 1", "nfsstat_init", "nfsstat", "launch"}

C14_Witness ==
    /\ op = "trace_start" /\ ~raised /\ traceproc # None
    /\ procs[traceproc].cmd = "tcpdump" /\ procs[traceproc].state = "running"
    /\ \E i \in DOMAIN ev : ev[i] = <<"launch", traceproc, 0>>
    /\ \E i \in DOMAIN ev : ev[i][1] = "rpcdebug -s"
    /\ \E i \in DOMAIN ev : ev[i][1] = "echo 1"
    /\ \E i \in DOMAIN ev : ev[i][1] = "nfsstat"

\* C15: reverse stop ordering: trace_stop stops the stages in the reverse of
\* the order in which trace_start starts them: the capture first, then the
\* statistics, then the trace points, then debug logging; so the statistics
\* are collected (nfsstat -l) before a trace point is disabled (echo 0), and
\* the trace points are disabled before debug logging is cleared (rpcdebug -c).
\* (Under SpecTrace.)
C15_ReverseStopOrdering ==
    op = "trace_stop" =>
        \A i, j \in DOMAIN ev :
            /\ (ev[i][1] = "nfsstat -l" /\ ev[j][1] = "echo 0") => i < j
            /\ (ev[i][1] = "echo 0" /\ ev[j][1] = "rpcdebug -c") => i < j

\* C16: cleanup ordering: in the one effective run of cleanup the steps happen
\* in the order: stop the session, reset the network (only if a drop was
\* applied), mount (only if there are files to remove), remove the registered
\* files in reverse registration order, unmount.  No file is removed after the
\* unmount, and a removal that fails does not stop the remaining ones: when
\* cleanup returns, every registered file that still exists has had a failed
\* removal.  (Under SpecCleanup.)
C16_CleanupOrdering ==
    [][(ncleanup' = ncleanup + 1 /\ ev' # <<>>) =>
        (LET step(e) == IF e[1] \in {"network_reset", "iptables --flush",
                                     "iptables --delete-chain"} THEN 2
                        ELSE IF e[1] \in {"mount", "mount -o"} THEN 3
                        ELSE IF e[1] = "unlink" THEN 4
                        ELSE IF e[1] \in {"umount", "umount -f"} THEN 5
                        ELSE 1
         IN /\ ev[1] = <<"trace_stop", 0, 0>>
            /\ \A i, j \in DOMAIN ev : i < j => step(ev[i]) <= step(ev[j])
            /\ (\E i \in DOMAIN ev : step(ev[i]) = 2) <=> need_network_reset
            /\ (\E i \in DOMAIN ev : step(ev[i]) = 3) => remove_list # <<>>
            /\ \A i, j \in DOMAIN ev :
                  (i < j /\ ev[i][1] = "unlink" /\ ev[j][1] = "unlink") =>
                      \E p, q \in DOMAIN remove_list :
                          /\ q < p
                          /\ remove_list[p] = ev[i][2] /\ remove_list[q] = ev[j][2]
            /\ ~raised =>
                  \A k \in DOMAIN remove_list :
                      remove_list[k] \in artifacts =>
                          \E i \in DOMAIN ev : ev[i] = <<"unlink", remove_list[k], 1>>)'
      ]_vars

C16_Witness ==
    /\ op = "cleanup" /\ ~raised
    /\ \E i \in DOMAIN ev : ev[i][1] = "network_reset"
    /\ \E i \in DOMAIN ev : ev[i][1] = "mount -o"
    /\ \E i, j, k \in DOMAIN ev :
          /\ i < j /\ j < k
          /\ ev[i] = <<"unlink", 2, 1>> /\ ev[j] = <<"unlink", 1, 0>>
          /\ ev[k][1] = "umount -f"
    /\ \E i \in DOMAIN ev : ev[i][1] = "terminate"

\* C17: escalation order and retry budget: during a terminate-wait the kill
\* signals are sent only in the order SIGINT, SIGTERM, SIGKILL; a signal of a
\* tier is sent only after a round of every earlier tier; each tier makes at
\* most 5 rounds (a round: one process-table query followed by the kill
\* commands), and there are at most 15 rounds in all.  (Under SpecKill.)
C17_EscalationBudget ==
    op = "stop_cmd" =>
        /\ \A i, j \in DOMAIN ev : \A a, b \in Tiers :
              (i < j /\ ev[i][1] = Signals[a] /\ ev[j][1] = Signals[b]) => a <= b
        /\ \A j \in DOMAIN ev : \A b \in Tiers :
              ev[j][1] = Signals[b] =>
                  \A a \in 1..(b - 1) : \E i \in 1..(j - 1) : ev[i][1] = Signals[a]
        /\ \A a \in Tiers :
              Cardinality({i \in DOMAIN ev :
                              /\ ev[i][1] = "ps" /\ i < Len(ev)
                              /\ ev[i + 1][1] = Signals[a]}) <= Retries
        /\ Cardinality({i \in DOMAIN ev : ev[i][1] = "ps"}) <= Retries * Len(Signals)

\* The target ignores every signal: five rounds in each of the three tiers,
\* fifteen in all, and the escalation is given up.
C17_Witness ==
    /\ op = "stop_cmd" /\ ~raised
    /\ \A a \in Tiers :
          Cardinality({i \in DOMAIN ev : /\ ev[i][1] = "ps" /\ i < Len(ev)
                                          /\ ev[i + 1][1] = Signals[a]}) = Retries
    /\ Cardinality({i \in DOMAIN ev : ev[i][1] = "ps"}) = Retries * Len(Signals)
    /\ \E i \in DOMAIN ev : ev[i][1] = "escalation" /\ ev[i][2] = Len(Signals)

\* C18: early stop of the escalation: when the escalation of a terminate-wait
\* is left before any SIGKILL was sent, the descendant set of the target, as
\* get_pids computes it at that moment, is empty; while that set is not empty
\* the escalation goes on to the next signal.  (Under SpecKill.)
C18_EarlyStop ==
    op = "stop_cmd" =>
        \A i \in DOMAIN ev :
            (/\ ev[i][1] = "escalation"
             /\ \A j \in DOMAIN ev : ev[j][1] # "SIGKILL") => ev[i][3] = 0

\* The target exits on SIGINT and the escalation is left in the SIGTERM tier,
\* with a process of its tree still running.
C18_Witness ==
    /\ op = "stop_cmd" /\ ~raised /\ ~blocked
    /\ \E i \in DOMAIN ev : ev[i] = <<"escalation", 2, 0>>
    /\ \E i \in DOMAIN ev : ev[i][1] = "SIGINT"
    /\ \A j \in DOMAIN ev : ev[j][1] \notin {"SIGTERM", "SIGKILL"}
    /\ DOMAIN ptab # {}

\* C19: choice of the termination path: a terminate-wait uses the kill
\* commands and the process-table query for a process if and only if that
\* process was launched with sudo by a caller that is not root; for every other
\* tracked process it calls terminate() on the handle (logged with the handle)
\* and runs no kill command and no process-table query.  (Under Spec.)
C19_TerminationPath ==
    [][(op' = "stop_cmd" /\ ev' # ev) =>
        /\ \A h \in Handles :
              (\E i \in DOMAIN ev' : ev'[i] = <<"terminate", h, 0>>) =>
                  ~procs[h].elevated
        /\ \A h \in Handles :
              (/\ h \in Range(process_list) /\ h \notin Range(process_list')
               /\ ~procs[h].elevated) =>
                  \E i \in DOMAIN ev' : ev'[i] = <<"terminate", h, 0>>
        /\ (\E i \in DOMAIN ev' : ev'[i][1] \in {"ps"} \cup Range(Signals)) =>
              \E h \in Range(process_list) : procs[h].elevated
      ]_vars

\* C20: reap before removal: a process leaves the registry only in a wait_cmd
\* or stop_cmd call that has waited for it and collected its exit status; in
\* no state is a launched process outside the registry while it still runs or
\* its exit status is uncollected.  (Under Spec: plain wait and terminate-wait.)
C20_ReapBeforeRemoval ==
    [][/\ \A h \in DOMAIN procs' :
             h \notin Range(process_list') =>
                 /\ procs'[h].state = "reaped"
                 /\ procs'[h].pid \notin DOMAIN ptab'
       /\ \A h \in Handles :
             (h \in Range(process_list) /\ h \notin Range(process_list')) =>
                 /\ op' \in {"wait_cmd", "stop_cmd"}
                 /\ procs[h].state # "reaped" => procs[h].pid \notin DOMAIN ptab'
                 /\ \E i \in DOMAIN ev' : ev'[i] = <<"wait", h, 0>>
                 /\ procs'[h].waited
      ]_vars

\* One process was removed by an earlier call; another was running, is
\* terminated and waited for in this call, and both have been reaped.
C20_Witness ==
    /\ op = "stop_cmd" /\ ~raised
    /\ \E h, g \in Handles :
          /\ h # g
          /\ h \notin Range(process_list) /\ g \notin Range(process_list)
          /\ procs[h].state = "reaped" /\ procs[g].state = "reaped"
          /\ \E i, j \in DOMAIN ev :
                i < j /\ ev[i] = <<"terminate", h, 0>> /\ ev[j] = <<"wait", h, 0>>
          /\ \A i \in DOMAIN ev : ev[i][2] # g

\* C21: bulk wait: wait_cmd or stop_cmd without a process works on the
\* registry as it is when the call is made: when the call returns normally,
\* every process of that snapshot has been waited for, in the order of the
\* snapshot, and is out of the registry, and the value returned is the exit
\* status of the last process of the snapshot (nothing, for an empty one).
\* (Under SpecBulk, where every wait_cmd and stop_cmd is a bulk call.)
C21_BulkWait ==
    [][(op' \in {"wait_cmd", "stop_cmd"} /\ ~raised' /\ (op' # op \/ ev' # ev)) =>
        /\ process_list' = <<>>
        /\ \A k \in DOMAIN process_list :
              /\ procs'[process_list[k]].waited
              /\ \E i \in DOMAIN ev' : ev'[i] = <<"wait", process_list[k], 0>>
        /\ \A k, l \in DOMAIN process_list : \A i, j \in DOMAIN ev' :
              (/\ k < l
               /\ ev'[i] = <<"wait", process_list[k], 0>>
               /\ ev'[j] = <<"wait", process_list[l], 0>>) => i < j
        /\ process_list = <<>> => ret' = <<>>
        /\ process_list # <<>> =>
              /\ Len(ret') = 1
              /\ procs[process_list[Len(process_list)]].state # "running" =>
                    ret'[1] = procs[process_list[Len(process_list)]].rc
              /\ procs[process_list[Len(process_list)]].state = "running" =>
                    \E a \in Tiers : ret'[1] = -Signum[a]
      ]_vars

\* A bulk stop of two processes, the second of which was running and is
\* killed: both are waited for, in the order of the registry.
C21_Witness ==
    /\ op = "stop_cmd" /\ ~raised /\ process_list = <<>>
    /\ Len(procs) = 2 /\ procs[1].waited /\ procs[2].waited
    /\ \E i, j \in DOMAIN ev :
          i < j /\ ev[i] = <<"wait", 1, 0>> /\ ev[j] = <<"wait", 2, 0>>
    /\ \E i \in DOMAIN ev : ev[i][1] \in {"terminate", "SIGINT"} /\ ev[i][2] # 1
    /\ ret \in {<<-2>>, <<-15>>, <<-9>>}

\* C22: kill failures are swallowed: in a terminate-wait of a running process
\* launched with sudo by a non-root caller, a kill command that fails raises
\* nothing to the caller (only a failed process-table query does), the first
\* round still signals every process of the tree, a failed kill command is
\* never the last thing the call does, and a call that returns has waited for
\* the process and removed it from the registry.  (Under SpecKill.)
C22_KillFailuresSwallowed ==
    [][\A h \in Handles :
          (/\ op' = "stop_cmd" /\ ev' # ev
           /\ h \in Range(process_list)
           /\ procs[h].pid \in process_smap /\ procs[h].state = "running"
           /\ \E i \in DOMAIN ev' : ev'[i][1] \in Range(Signals) /\ ev'[i][3] = 1) =>
              /\ raised' => ev'[Len(ev')] = <<"ps", 0, 1>>
              /\ \A k \in 1..Len(get_pids(ptab, procs[h].pid)) :
                    /\ ev'[1 + k][1] = "SIGINT"
                    /\ ev'[1 + k][2] =
                          Reverse(get_pids(ptab, procs[h].pid))[k]
              /\ \A i \in DOMAIN ev' :
                    (ev'[i][1] \in Range(Signals) /\ ev'[i][3] = 1) =>
                        /\ i < Len(ev')
                        /\ ev'[i + 1][1] \in Range(Signals) \cup {"ps", "escalation"}
              /\ (~raised' /\ ~blocked') =>
                    /\ h \notin Range(process_list')
                    /\ ev'[Len(ev')] = <<"wait", h, 0>>
      ]_vars

\* The kill command for a child fails, the one for the target that follows it
\* in the same round succeeds, and the call ends with the wait.
C22_Witness ==
    /\ op = "stop_cmd" /\ ~raised /\ ~blocked
    /\ \E i \in DOMAIN ev :
          /\ i + 1 < Len(ev)
          /\ ev[i][1] = "SIGINT" /\ ev[i][3] = 1
          /\ ev[i + 1][1] = "SIGINT" /\ ev[i + 1][3] = 0
    /\ ev[Len(ev)][1] = "wait"
    /\ process_list = <<>>

\* C23: command result fields: after a blocking run_cmd, with or without an
\* error, returncode is the exit status of the command, and whenever an error
\* was raised perror is the text that the error carries; after a non-blocking
\* run_cmd pstdout, pstderr and perror are empty and returncode is 0.
\* (Under SpecExec.)
C23_ResultFields ==
    /\ op = "run_cmd" =>
          /\ returncode = ev[1][3]
          /\ raised => perror = exc
    /\ op = "run_cmd_nowait" =>
          (pstdout = "" /\ pstderr = "" /\ perror = "" /\ returncode = 0)

\* C24: stage state is reset on stop: after a trace_stop that stopped a
\* running capture and in which every stage ran and every command succeeded, no stage
\* state is left: no capture handle, no copy-process handle, no trace point
\* flagged enabled, no statistics reference file, and debug logging is not
\* flagged active (so that a further trace_stop makes no debug reset).
\* (Under SpecTrace.)
C24_StageStateReset ==
    (/\ op = "trace_stop"
     /\ Len(ev) > 1 /\ ev[2][1] \in {"terminate", "ps"}
     /\ \E i \in DOMAIN ev : ev[i][1] = "nfsstat_get"
     /\ \A i \in DOMAIN ev : ev[i][3] = 0
     /\ dbgfile \in DOMAIN marks /\ marks[dbgfile].stop >= 0) =>
        /\ traceproc = None
        /\ trcpointproc = None
        /\ \A k \in DOMAIN _tracestate : _tracestate[k].on = 0
        /\ nfsstattemp = 0
        /\ ~_nfsdebug

\* C25: trace points enable: trace_points_enable raises nothing and tries the
\* enable command of every configured trace point, whichever of them fail; a
\* trace point whose command succeeded is flagged enabled and the flag of one
\* whose command failed is left as it was; the copy process is launched
\* (registered, and kept in trcpointproc) if and only if at least one command
\* succeeded.  (Under SpecPoints.)
C25_TracePointsEnable ==
    [][(op' = "trace_points_enable" /\ ev' # ev) =>
        /\ ~raised'
        /\ \A k \in DOMAIN tracepoints :
              \E i \in DOMAIN ev' :
                 /\ ev'[i][1] = "echo 1" /\ ev'[i][2] = tracepoints[k]
                 /\ ev'[i][3] = 0 =>
                       \E j \in DOMAIN _tracestate' :
                          _tracestate'[j] = [name |-> tracepoints[k], on |-> 1]
                 /\ ev'[i][3] # 0 =>
                       /\ DictHas(_tracestate', tracepoints[k])
                             <=> DictHas(_tracestate, tracepoints[k])
                       /\ \A j \in DOMAIN _tracestate :
                             _tracestate[j].name = tracepoints[k] =>
                                 _tracestate'[j] = _tracestate[j]
        /\ (\E i \in DOMAIN ev' : ev'[i][1] = "launch")
              <=> (\E i \in DOMAIN ev' : ev'[i][1] = "echo 1" /\ ev'[i][3] = 0)
        /\ \A i \in DOMAIN ev' :
              ev'[i][1] = "launch" =>
                  /\ i = Len(ev')
                  /\ trcpointproc' = ev'[i][2]
                  /\ ev'[i][2] \in Range(process_list')
                  /\ ev'[i][2] \notin Range(process_list)
                  /\ procs'[ev'[i][2]].cmd = "cat"
                  /\ procs'[ev'[i][2]].state = "running"
        /\ (\A i \in DOMAIN ev' : ev'[i][1] # "launch") =>
              (trcpointproc' = trcpointproc /\ process_list' = process_list)
      ]_vars

\* The command of the first trace point fails and the one of the second
\* succeeds: only the second is flagged, and the copy process runs.
C25_Witness ==
    /\ op = "trace_points_enable" /\ ~raised
    /\ \E i, j \in DOMAIN ev :
          i < j /\ ev[i] = <<"echo 1", 1, 1>> /\ ev[j] = <<"echo 1", 2, 0>>
    /\ _tracestate = <<[name |-> 2, on |-> 1]>>
    /\ trcpointproc # None /\ trcpointproc \in Range(process_list)
    /\ procs[trcpointproc].cmd = "cat"

\* C26: the descendant resolver: for a process table without cycles and any
\* pid, get_pids returns nothing when the pid is not in the table; otherwise
\* it returns the pid first, then all its transitive descendants and nothing
\* else, each once, every process after its parent and in breadth-first
\* order (the parents of later entries are not listed before the parents of
\* earlier ones).  (Under SpecPids; the descendants are the least set that
\* holds the pid and every listed child of a member.)
C26_DescendantResolver ==
    (op = "get_pids" /\ ~raised) =>
        LET pid    == ev[1][2]
            r      == ret[1]
            closed == {S \in SUBSET DOMAIN ptab :
                          /\ pid \in S
                          /\ \A q \in DOMAIN ptab : ptab[q] \in S => q \in S}
            tree   == {q \in DOMAIN ptab : \A S \in closed : q \in S}
        IN /\ pid \notin DOMAIN ptab => r = <<>>
           /\ pid \in DOMAIN ptab =>
                 /\ Len(r) >= 1
                 /\ r[1] = pid
                 /\ Range(r) = tree
                 /\ Cardinality(tree) = Len(r)
                 /\ \A i \in 2..Len(r) : \E j \in 1..(i - 1) : r[j] = ptab[r[i]]
                 /\ \A i, j \in 2..Len(r) : \A a, b \in 1..Len(r) :
                       (i < j /\ r[a] = ptab[r[i]] /\ r[b] = ptab[r[j]]) => a <= b

\* The table holds the pid, a child of it and a child of that child: the
\* three are returned, in that order.
C26_Witness ==
    /\ op = "get_pids" /\ ~raised
    /\ Len(ret[1]) = 3 /\ ret[1][1] = ev[1][2]
    /\ ptab[ret[1][2]] = ret[1][1] /\ ptab[ret[1][3]] = ret[1][2]

\* C27: capture readiness check: once trace_start has launched the capture
\* process, it raises if and only if the first line of the startup output
\* does not say 'listening on' and the process has exited; in every other
\* case (the line says so, or the process still runs) it returns the name of
\* the trace file, with the capture process kept in traceproc and tracked.
\* (Under SpecReady.)
C27_ReadinessCheck ==
    op = "trace_start" =>
        \A i \in DOMAIN ev :
            ev[i][1] = "readline" =>
                /\ raised <=> (ev[i][3] = 0 /\ procs[ev[i][2]].state # "running")
                /\ ~raised =>
                      /\ ret = <<tracefile>>
                      /\ traceproc = ev[i][2]
                      /\ traceproc \in Range(process_list)
                      /\ procs[traceproc].cmd = "tcpdump"

\* The line read does not say 'listening on' and the process runs:
\* trace_start returns the file name.
C27_Witness ==
    /\ op = "trace_start" /\ ~raised /\ ret = <<tracefile>>
    /\ traceproc # None /\ procs[traceproc].state = "running"
    /\ \E i \in DOMAIN ev : ev[i] = <<"readline", traceproc, 0>>

\* C28: statistics reference cleanup: after any trace_stop, whether or not
\* the statistics command of nfsstat_get succeeded, no reference file of a
\* session remains and none is recorded in nfsstattemp.  (Under SpecTrace.)
C28_ReferenceCleanup ==
    op = "trace_stop" => (tempfiles = {} /\ nfsstattemp = 0)

\* C29: an active handle is in the registry: in every state reached by
\* trace_start, trace_stop, trace_points_enable, trace_points_reset, wait_cmd
\* and stop_cmd (for one process or for all), a process that traceproc or
\* trcpointproc names is in process_list.  (Under SpecHandles.)
C29_HandleInRegistry ==
    /\ traceproc # None => traceproc \in Range(process_list)
    /\ trcpointproc # None => trcpointproc \in Range(process_list)

\* The processes a caller can hold that are not in the registry: the Popen
\* object of a blocking run_cmd (never registered) and the handles already
\* waited for or terminated.
Untracked == ({-1} \cup Handles) \ Range(process_list)

\* A call of wait_cmd or stop_cmd on an untracked process.
UntrackedWait ==
    \E proc \in Untracked :
        \/ Apply(wait_cmd(Call("wait_cmd"), proc, FALSE, "", NoOracle))
        \/ Apply(stop_cmd(Call("stop_cmd"), proc, "", NoOracle))

\* C30: wait_cmd or stop_cmd given a process that is not in the registry
\* sends no signal, issues no command, does not block, leaves the registry
\* (and the maps and the processes) unchanged and returns no exit code; so a
\* second stop of a process changes nothing the first one left.
C30_UntrackedNoOp ==
    [][UntrackedWait =>
          /\ ev' = <<>> /\ ret' = <<>> /\ ~raised' /\ ~blocked'
          /\ process_list' = process_list
          /\ process_smap' = process_smap /\ process_dmap' = process_dmap
          /\ procs' = procs /\ ptab' = ptab]_vars

\* A stop that found nothing to do although processes are tracked: it was
\* given a process that had been waited for before.
C30_Witness ==
    /\ op = "stop_cmd" /\ ev = <<>> /\ ret = <<>> /\ ~raised
    /\ process_list # <<>>
    /\ \E h \in Handles : procs[h].waited /\ h \notin Range(process_list)

\* ------------------------------------------- the unmount: SpecUmount
\* What one umount command can come to: besides UmountOk, UmountBusy and
\* UmountGone, the text is on stdout (as a remote command reports it), the
\* ssh transport fails, or the command writes bytes that are not text.
UmountGoneOut == [rc |-> 1, out |-> "not mounted", err |-> ""]
UmountSsh     == [rc |-> SshFail, out |-> "", err |-> "ssh"]
UmountBytes   == [rc |-> 1, out |-> "", err |-> Undecodable]
UmountOutcomes ==
    {UmountOk, UmountBusy, UmountGone, UmountGoneOut, UmountSsh, UmountBytes}

\* The first k commands come to one outcome, the others to another.
RetryOracles ==
    {[i \in 1..Attempts |-> IF i <= k THEN first ELSE then] :
        k \in 0..Attempts, first \in UmountOutcomes, then \in UmountOutcomes}

UmountRetry == \E um \in RetryOracles : Apply(umount(Call("umount"), um))

InitUmount ==
    /\ InitAttributes
    /\ notrace = FALSE /\ nfsdebug = FALSE /\ rpcdebug = FALSE
    /\ tracepoints = <<>> /\ nfsstats = FALSE /\ nomount \in BOOLEAN
    /\ _localhost \in BOOLEAN /\ isroot \in BOOLEAN

NextUmount == Mount \/ UmountRetry

SpecUmount == InitUmount /\ [][NextUmount]_vars

\* C31: umount issues the unmount command at most 5 times and stops at the
\* first attempt that succeeds or reports that the path is not mounted; the
\* mounted flag is cleared if and only if the attempt it stopped at exited
\* with 0 or printed an error text saying not mounted / not found / invalid
\* argument, and it stays set after 5 failed attempts of any other kind.
\* (The attempts are ev'[2..]; the text is on stderr locally, on stdout from
\* a remote host.)
C31_UmountRetry ==
    [][(op' = "umount" /\ ~nomount /\ mounted) =>
          /\ Len(ev') - 1 \in 1..Attempts
          /\ \A k \in 2..Len(ev') : ev'[k][1] = "umount -f"
          /\ \A k \in 2..(Len(ev') - 1) : ev'[k][3] # 0
          /\ ~mounted' <=>
                \/ ev'[Len(ev')][3] = 0
                \/ NotMounted(IF _localhost THEN pstderr' ELSE pstdout')
          /\ mounted' => Len(ev') - 1 = Attempts]_vars

====
